---- MODULE Spec2Model ----
(***************************************************************************)
(* The Junction class of SPORK/denovo_class_utils/Junction.py as a state   *)
(* machine.  A Junction is constructed (Init), its two anchor slots are    *)
(* filled at most once each by the anchoring stage, and its derived        *)
(* queries and serializers are called in any order.  Strings whose         *)
(* characters matter (consensus, anchor sequences, the bin_pair key) are   *)
(* sequences of one-character strings; positions are 0-based as in         *)
(* Python.  A call's outcome is a record [kind, val]: kind "return" with   *)
(* the returned value, or kind "raise" with the exception's name.          *)
(***************************************************************************)
EXTENDS Integers, Sequences, FiniteSets, TLC

VARIABLES consensus, score, bin_pair_group, bin_pair, took_reverse_compliment,
          constants_dict, upstream_sam, downstream_sam, last

core == <<consensus, score, bin_pair_group, bin_pair, took_reverse_compliment,
          constants_dict>>
slots == <<upstream_sam, downstream_sam>>
vars == <<core, slots, last>>

(***************************************************************************)
(* Bounds of the model.                                                    *)
(***************************************************************************)
MaxConsLen == 3
MaxAnchorLen == 2
MaxFlank == 3
MaxCoord == 4
MaxBin == 10

(***************************************************************************)
(* Program constants.                                                      *)
(***************************************************************************)
DefaultRadius == 3
DefaultSpanCutoff == 1000000

(***************************************************************************)
(* Python primitives.                                                      *)
(***************************************************************************)
Return(v) == [kind |-> "return", val |-> v]
Raise(e) == [kind |-> "raise", val |-> e]

abs(x) == IF x < 0 THEN -x ELSE x
min(a, b) == IF a <= b THEN a ELSE b
max(a, b) == IF a >= b THEN a ELSE b

\* s.find(sub): the lowest 0-based index at which sub occurs in s, -1 if none
find(s, sub) ==
    LET hits == {i \in 0..(Len(s) - Len(sub)) :
                    SubSeq(s, i + 1, i + Len(sub)) = sub}
    IN IF hits = {} THEN -1
       ELSE CHOOSE i \in hits : \A j \in hits : i <= j

\* sub in s
contains(s, sub) == find(s, sub) # -1

\* index without its ValueError: the -1 of s.find(sub)
index_or_minus_one(s, sub) == Return(find(s, sub))

\* s.index(sub): as find, but a ValueError when sub does not occur
index(s, sub) ==
    IF find(s, sub) = -1 THEN Raise("ValueError") ELSE Return(find(s, sub))

\* c * n for a one-character string c: empty when n <= 0
repeat(c, n) == [k \in 1..n |-> c]

\* s[:i]
slice_to(s, i) ==
    IF i >= 0 THEN SubSeq(s, 1, min(i, Len(s)))
              ELSE SubSeq(s, 1, max(Len(s) + i, 0))

\* s[i:]
slice_from(s, i) ==
    IF i >= 0 THEN SubSeq(s, min(i, Len(s)) + 1, Len(s))
              ELSE SubSeq(s, max(Len(s) + i, 0) + 1, Len(s))

\* s[::-1]
reversed(s) == [k \in 1..Len(s) |-> s[Len(s) + 1 - k]]

\* s.split(sep) for a one-character separator
RECURSIVE split(_, _)
split(s, sep) ==
    LET cut == find(s, <<sep>>)
    IN IF cut = -1 THEN <<s>>
       ELSE <<SubSeq(s, 1, cut)>> \o split(SubSeq(s, cut + 2, Len(s)), sep)

Digits == <<"0", "1", "2", "3", "4", "5", "6", "7", "8", "9">>

digit_value(c) == (CHOOSE k \in 1..10 : Digits[k] = c) - 1

RECURSIVE digits_value(_)
digits_value(s) ==
    IF s = <<>> THEN 0
    ELSE 10 * digits_value(SubSeq(s, 1, Len(s) - 1)) + digit_value(s[Len(s)])

\* int(s) for a string of decimal digits; a ValueError otherwise
int(s) ==
    IF s = <<>> \/ \E k \in 1..Len(s) : \A d \in 1..10 : Digits[d] # s[k]
    THEN Raise("ValueError")
    ELSE Return(digits_value(s))

\* str(n) for n >= 0
RECURSIVE str_int(_)
str_int(n) ==
    IF n < 10 THEN <<Digits[n + 1]>>
    ELSE str_int(n \div 10) \o <<Digits[(n % 10) + 1]>>

\* str(None)
NoneStr == <<"N", "o", "n", "e">>

(***************************************************************************)
(* The alignment record (SAMEntry) and the exon annotation it may carry.   *)
(***************************************************************************)
NoGtf == [present |-> FALSE, start |-> 0, stop |-> 0]
Gtf(a, b) == [present |-> TRUE, start |-> a, stop |-> b]

\* SAMEntry(): the absent anchor
AbsentSam ==
    [exists |-> FALSE, seq |-> <<>>, chromosome |-> "None", strand |-> "None",
     start |-> "None", stop |-> "None", gtf |-> NoGtf, genes |-> "None"]

SamRecord(seq, chrom, strand, start, stop, gtf) ==
    [exists |-> TRUE, seq |-> seq, chromosome |-> chrom, strand |-> strand,
     start |-> start, stop |-> stop, gtf |-> gtf, genes |-> "gene"]

str_gene(sam) == sam.genes

\* the key "chrA:binA_chrB:binB_strand" of a supporting alignment pair
MakeBinPair(chrA, binA, chrB, binB, strand) ==
    chrA \o <<":">> \o str_int(binA) \o <<"_">> \o
    chrB \o <<":">> \o str_int(binB) \o <<"_">> \o strand

(***************************************************************************)
(* Input families.                                                         *)
(***************************************************************************)
Strings(alphabet, lo, hi) == UNION {[1..n -> alphabet] : n \in lo..hi}

ConsBases == {"A", "C", "T"}
AnchorBases == {"A", "G"}

Chr1 == <<"c", "h", "r", "1">>
Chr2 == <<"c", "h", "r", "2">>
ChrHap == <<"c", "h", "r", "6", "_", "a", "p", "d", "_", "h", "a", "p", "1">>
Plus == <<"+">>

DefaultKey == MakeBinPair(Chr1, 5, Chr1, 10, Plus)
DefaultConsensus == <<"A", "C", "T">>

\* anchors that differ in their sequence only: an alignment of n bases at 0..n-1
SeqSamsUpTo(n) ==
    {SamRecord(s, "chr1", "+", 0, Len(s) - 1, NoGtf) : s \in Strings(AnchorBases, 1, n)}
UpSeqSams == SeqSamsUpTo(MaxAnchorLen)
DownSeqSams == SeqSamsUpTo(MaxAnchorLen - 1)

\* anchors of one base repeated, of every length
RunSams ==
    {SamRecord([k \in 1..n |-> "A"], "chr1", "+", 0, 1, NoGtf) :
        n \in 1..MaxAnchorLen}

\* alignments [start, stop] of length one or two
Spans == {<<a, b>> \in (0..MaxCoord) \X (0..MaxCoord) : a <= b /\ b <= a + 1}
Exons == {NoGtf, Gtf(0, 0), Gtf(0, MaxCoord)}

\* anchors that differ in their genomic coordinates and annotation
UpCoordSams ==
    {SamRecord(<<"A">>, "chr1", "+", p[1], p[2], g) : p \in Spans, g \in Exons}
DownCoordSams ==
    {SamRecord(<<"T">>, c, s, p[1], p[2], g) :
        c \in {"chr1", "chr2"}, s \in {"+", "-"}, p \in Spans, g \in Exons}

OneSam == {SamRecord(<<"A">>, "chr1", "+", 0, 1, NoGtf)}

Keys == {MakeBinPair(a, i, b, j, Plus) :
            a \in {Chr1, ChrHap}, b \in {Chr1, Chr2}, i \in 0..MaxBin, j \in 0..MaxBin}

(***************************************************************************)
(* __init__                                                                *)
(***************************************************************************)
InitOver(conses, flanks, keys, flags) ==
    /\ consensus \in conses
    /\ score = 0
    /\ bin_pair_group \in {<<[bin_pair |-> k]>> : k \in keys}
    /\ bin_pair = bin_pair_group[1].bin_pair
    /\ took_reverse_compliment \in flags
    /\ constants_dict \in {[splice_flank_len |-> f] : f \in flanks}
    /\ upstream_sam = AbsentSam
    /\ downstream_sam = AbsentSam
    /\ last = [op |-> "__init__"]

(***************************************************************************)
(* The anchoring stage: each slot is assigned at most once.                *)
(***************************************************************************)
SetUpstream(sams) ==
    /\ ~upstream_sam.exists
    /\ \E r \in sams : upstream_sam' = r
    /\ last' = [op |-> "set_upstream"]
    /\ UNCHANGED <<core, downstream_sam>>

SetDownstream(sams) ==
    /\ ~downstream_sam.exists
    /\ \E r \in sams : downstream_sam' = r
    /\ last' = [op |-> "set_downstream"]
    /\ UNCHANGED <<core, upstream_sam>>

(***************************************************************************)
(* The derived queries, as functions of the current state.                 *)
(***************************************************************************)
\* splice_ind as a sentinel: -1 when an anchor is missing
splice_ind_sentinel ==
    IF upstream_sam.exists /\ downstream_sam.exists
    THEN Len(upstream_sam.seq)
    ELSE -1

splice_ind ==
    IF upstream_sam.exists /\ downstream_sam.exists
    THEN Len(upstream_sam.seq)
    ELSE Len(consensus) \div 2

comp == [x \in {"A", "T", "C", "G", "N"} |->
            CASE x = "A" -> "T" [] x = "T" -> "A" [] x = "C" -> "G"
              [] x = "G" -> "C" [] x = "N" -> "N"]

\* the complement without the reversal
rev_comp_unreversed(seq) == [k \in 1..Len(seq) |-> comp[seq[k]]]

rev_comp(seq) == reversed([k \in 1..Len(seq) |-> comp[seq[k]]])

\* the position just after the upstream anchor's match
upstream_pos ==
    IF contains(consensus, upstream_sam.seq)
    THEN Return(index(consensus, upstream_sam.seq).val + Len(upstream_sam.seq))
    ELSE LET at == index(consensus, rev_comp(upstream_sam.seq))
         IN IF at.kind = "raise" THEN at
            ELSE Return(at.val + Len(upstream_sam.seq))

\* the position at which the downstream anchor's match starts
downstream_pos ==
    IF contains(consensus, downstream_sam.seq)
    THEN index(consensus, downstream_sam.seq)
    ELSE index(consensus, rev_comp(downstream_sam.seq))

splice_gap ==
    IF upstream_sam.exists /\ downstream_sam.exists
    THEN IF upstream_pos.kind = "raise" THEN upstream_pos
         ELSE IF downstream_pos.kind = "raise" THEN downstream_pos
         ELSE Return(upstream_pos.val - downstream_pos.val)
    ELSE Return(-1)

\* span from the wrong ends of the two alignments
span_swapped ==
    IF upstream_sam.exists /\ downstream_sam.exists
    THEN upstream_sam.stop - downstream_sam.start
    ELSE -1

span ==
    IF upstream_sam.exists /\ downstream_sam.exists
    THEN upstream_sam.start - downstream_sam.stop
    ELSE -1

\* splice_type with the one-anchor labels exchanged
splice_type_swapped ==
    IF upstream_sam.exists /\ downstream_sam.exists
    THEN IF splice_gap.kind = "raise" THEN splice_gap
         ELSE IF splice_gap.val = 0 THEN Return("Full") ELSE Return("Gapped")
    ELSE IF upstream_sam.exists THEN Return("Three_Only")
    ELSE IF downstream_sam.exists THEN Return("Five_Only")
    ELSE Return("None")

splice_type ==
    IF upstream_sam.exists /\ downstream_sam.exists
    THEN IF splice_gap.kind = "raise" THEN splice_gap
         ELSE IF splice_gap.val = 0 THEN Return("Full") ELSE Return("Gapped")
    ELSE IF upstream_sam.exists THEN Return("Five_Only")
    ELSE IF downstream_sam.exists THEN Return("Three_Only")
    ELSE Return("None")

boundary_dist(stream) ==
    LET sam == IF stream = "upstream" THEN upstream_sam ELSE downstream_sam
    IN IF sam.gtf.present
       THEN LET boundary_start == sam.gtf.start
                boundary_stop == sam.gtf.stop
                sam_pos == IF stream = "upstream" THEN sam.stop ELSE sam.start
                start_dist == abs(sam_pos - boundary_start)
                stop_dist == abs(sam_pos - boundary_stop)
            IN min(start_dist, stop_dist)
       ELSE -1

\* at_boundary without the lower bound on the distance
at_boundary_no_floor(stream, radius) == boundary_dist(stream) <= radius

at_boundary(stream, radius) ==
    LET dist == boundary_dist(stream)
    IN 0 <= dist /\ dist <= radius

check_fusion(span_cutoff) ==
    IF at_boundary("upstream", DefaultRadius) /\ at_boundary("downstream", DefaultRadius)
    THEN IF upstream_sam.chromosome # downstream_sam.chromosome THEN TRUE
         ELSE IF upstream_sam.strand # downstream_sam.strand THEN TRUE
         ELSE IF abs(span) > span_cutoff THEN TRUE
         ELSE FALSE
    ELSE FALSE

linear ==
    LET fields == split(bin_pair, "_")
    IN IF Len(fields) # 3 THEN Raise("ValueError")
       ELSE LET five == split(fields[1], ":")
                three == split(fields[2], ":")
            IN IF Len(five) < 2 \/ Len(three) < 2 THEN Raise("IndexError")
               ELSE LET five_prime_bin == int(five[2])
                        three_prime_bin == int(three[2])
                    IN IF five_prime_bin.kind = "raise" THEN five_prime_bin
                       ELSE IF three_prime_bin.kind = "raise" THEN three_prime_bin
                       ELSE LET lin == five_prime_bin.val <= three_prime_bin.val
                            IN Return(IF took_reverse_compliment THEN ~lin ELSE lin)

(***************************************************************************)
(* The serializers.  The output is [header, seq]: the header line as the   *)
(* tuple of its fields, and the sequence line as a string.                 *)
(***************************************************************************)
\* full_consensus with both paddings computed from the left part
full_consensus_left_only ==
    LET splice_flank_len == constants_dict.splice_flank_len
        padding == repeat("N", splice_flank_len - splice_ind)
    IN padding \o slice_to(consensus, splice_ind) \o
       slice_from(consensus, splice_ind) \o padding

full_consensus ==
    IF splice_ind # -1
    THEN LET splice_flank_len == constants_dict.splice_flank_len
             left_padding == repeat("N", splice_flank_len - splice_ind)
             right_padding ==
                 repeat("N", splice_flank_len - (Len(consensus) - splice_ind))
             five_consensus == slice_to(consensus, splice_ind)
             three_consensus == slice_from(consensus, splice_ind)
         IN left_padding \o five_consensus \o three_consensus \o right_padding
    ELSE NoneStr

fasta_MACHETE ==
    Return([header |->
               <<upstream_sam.chromosome, str_gene(upstream_sam), upstream_sam.start,
                 upstream_sam.strand,
                 downstream_sam.chromosome, str_gene(downstream_sam),
                 downstream_sam.start, downstream_sam.strand,
                 IF check_fusion(DefaultSpanCutoff) THEN "fusion" ELSE "no_fusion">>,
            seq |-> full_consensus])

side_fields(stream) ==
    LET sam == IF stream = "upstream" THEN upstream_sam ELSE downstream_sam
    IN <<sam.chromosome, str_gene(sam), sam.start, sam.stop, sam.strand,
         boundary_dist(stream), at_boundary(stream, DefaultRadius)>>

fasta_string(jct_ind) ==
    IF splice_type.kind = "raise" THEN splice_type
    ELSE Return([header |->
                    side_fields("upstream") \o side_fields("downstream") \o
                    <<splice_ind, score, Len(bin_pair_group), splice_type.val>> \o
                    (IF jct_ind = 0 THEN <<>> ELSE <<jct_ind>>),
                 seq |-> full_consensus])

verbose_fasta_string ==
    IF splice_gap.kind = "raise" THEN splice_gap
    ELSE Return([header |->
                    side_fields("upstream") \o side_fields("downstream") \o
                    <<splice_ind, span, score, check_fusion(DefaultSpanCutoff),
                      Len(bin_pair_group), splice_gap.val, splice_type.val,
                      took_reverse_compliment>>,
                 seq |-> full_consensus])

(***************************************************************************)
(* One action per call; a call leaves the Junction as it is and records    *)
(* its outcome in last.                                                    *)
(***************************************************************************)
Outcome(op, arg, ret) == [op |-> op, arg |-> arg, ret |-> ret]

CallSpliceInd ==
    /\ last' = Outcome("splice_ind", <<>>, Return(splice_ind))
    /\ UNCHANGED <<core, slots>>

CallSpliceGap ==
    /\ last' = Outcome("splice_gap", <<>>, splice_gap)
    /\ UNCHANGED <<core, slots>>

CallSpan ==
    /\ last' = Outcome("span", <<>>, Return(span))
    /\ UNCHANGED <<core, slots>>

CallSpliceType ==
    /\ last' = Outcome("splice_type", <<>>, splice_type)
    /\ UNCHANGED <<core, slots>>

CallBoundaryDist ==
    /\ \E stream \in {"upstream", "downstream"} :
           last' = Outcome("boundary_dist", <<stream>>, Return(boundary_dist(stream)))
    /\ UNCHANGED <<core, slots>>

CallAtBoundary ==
    /\ \E stream \in {"upstream", "downstream"}, radius \in {1, DefaultRadius} :
           last' = Outcome("at_boundary", <<stream, radius>>,
                           Return(at_boundary(stream, radius)))
    /\ UNCHANGED <<core, slots>>

CallCheckFusion ==
    /\ \E span_cutoff \in {1, DefaultSpanCutoff} :
           last' = Outcome("check_fusion", <<span_cutoff>>,
                           Return(check_fusion(span_cutoff)))
    /\ UNCHANGED <<core, slots>>

CallLinear ==
    /\ last' = Outcome("linear", <<>>, linear)
    /\ UNCHANGED <<core, slots>>

CallFastaMACHETE ==
    /\ last' = Outcome("fasta_MACHETE", <<>>, fasta_MACHETE)
    /\ UNCHANGED <<core, slots>>

CallFastaString ==
    /\ \E jct_ind \in {0, 1} :
           last' = Outcome("fasta_string", <<jct_ind>>, fasta_string(jct_ind))
    /\ UNCHANGED <<core, slots>>

CallVerboseFastaString ==
    /\ last' = Outcome("verbose_fasta_string", <<>>, verbose_fasta_string)
    /\ UNCHANGED <<core, slots>>

Queries ==
    \/ CallSpliceInd
    \/ CallSpliceGap
    \/ CallSpan
    \/ CallSpliceType
    \/ CallBoundaryDist
    \/ CallAtBoundary
    \/ CallCheckFusion
    \/ CallLinear
    \/ CallFastaMACHETE
    \/ CallFastaString
    \/ CallVerboseFastaString

NextOver(ups, downs) == SetUpstream(ups) \/ SetDownstream(downs) \/ Queries

(***************************************************************************)
(* Specifications: the same operations over four input families.           *)
(***************************************************************************)
\* consensus and anchor sequences vary
InitSeq == InitOver(Strings(ConsBases, 0, MaxConsLen), {MaxFlank}, {DefaultKey}, {FALSE})
SpecSeq == InitSeq /\ [][NextOver(UpSeqSams, DownSeqSams)]_vars

\* consensus, flank length and anchor length vary
InitPad == InitOver(Strings(ConsBases, 0, MaxConsLen), 0..MaxFlank, {DefaultKey}, {FALSE})
SpecPad == InitPad /\ [][NextOver(RunSams, RunSams)]_vars

\* genomic coordinates, chromosomes, strands and annotations vary
InitCoord == InitOver({DefaultConsensus}, {MaxFlank}, {DefaultKey}, {FALSE})
SpecCoord == InitCoord /\ [][NextOver(UpCoordSams, DownCoordSams)]_vars

\* the bin_pair key and the orientation flag vary
InitLinear == InitOver({DefaultConsensus}, {MaxFlank}, Keys, BOOLEAN)
SpecLinear == InitLinear /\ [][NextOver(OneSam, OneSam)]_vars

(***************************************************************************)
(* The properties.  They are stated over the outcome recorded in last and  *)
(* the Junction's fields, with the match positions characterised           *)
(* declaratively instead of through the queries' own search.               *)
(***************************************************************************)
Both == upstream_sam.exists /\ downstream_sam.exists

Returned(op) == last.op = op /\ last.ret.kind = "return"

Positions == 0..Len(consensus)

\* sub occurs in the consensus at the 0-based offset p
Occurs(sub, p) ==
    /\ p + Len(sub) <= Len(consensus)
    /\ \A k \in 1..Len(sub) : consensus[p + k] = sub[k]

FirstAt(sub, p) == Occurs(sub, p) /\ \A q \in 0..(p - 1) : ~Occurs(sub, q)

Complement(b) ==
    CHOOSE c \in {"A", "C", "G", "T", "N"} :
        <<b, c>> \in {<<"A", "T">>, <<"T", "A">>, <<"C", "G">>, <<"G", "C">>, <<"N", "N">>}

ReverseComplement(seq) == [k \in 1..Len(seq) |-> Complement(seq[Len(seq) + 1 - k])]

Forward(seq) == \E q \in Positions : Occurs(seq, q)

\* p is where the anchor sequence is found: forward first, else reverse complement
MatchAt(seq, p) ==
    IF Forward(seq) THEN FirstAt(seq, p) ELSE FirstAt(ReverseComplement(seq), p)

Locatable(seq) == \E p \in Positions : MatchAt(seq, p)

BothLocatable == Locatable(upstream_sam.seq) /\ Locatable(downstream_sam.seq)

\* the downstream match starts d positions after the end of the upstream match
Apart(d) ==
    \E pu \in Positions, pd \in Positions :
        /\ MatchAt(upstream_sam.seq, pu)
        /\ MatchAt(downstream_sam.seq, pd)
        /\ pd = pu + Len(upstream_sam.seq) + d

C3_TotalClassification ==
    last.op = "splice_type" =>
        /\ last.ret.kind = "return"
        /\ last.ret.val =
               IF Both THEN (IF Apart(0) THEN "Full" ELSE "Gapped")
               ELSE IF upstream_sam.exists THEN "Five_Only"
               ELSE IF downstream_sam.exists THEN "Three_Only"
               ELSE "None"

\* C3 amended: splice_type() returns the label the presence of the anchors and the
\* gap select, except that with both anchors present and one of them not
\* locatable in the consensus it raises the lookup error and returns no label.
C3_ClassificationOrError ==
    last.op = "splice_type" =>
        IF Both /\ ~BothLocatable THEN last.ret.kind = "raise"
        ELSE /\ last.ret.kind = "return"
             /\ last.ret.val =
                    IF Both THEN (IF Apart(0) THEN "Full" ELSE "Gapped")
                    ELSE IF upstream_sam.exists THEN "Five_Only"
                    ELSE IF downstream_sam.exists THEN "Three_Only"
                    ELSE "None"

\* both anchors present and adjacent in the consensus: "Full"
C3_Witness == Returned("splice_type") /\ Both /\ Apart(0) /\ last.ret.val = "Full"

\* C5: with both anchors present and locatable, splice_gap() is (first forward
\* match, else first reverse-complement match, of the upstream anchor, plus its
\* length) minus (the same match of the downstream anchor).
C5_ForwardFirstSearch ==
    last.op = "splice_gap" /\ Both /\ BothLocatable =>
        /\ last.ret.kind = "return"
        /\ \A pu \in Positions, pd \in Positions :
               MatchAt(upstream_sam.seq, pu) /\ MatchAt(downstream_sam.seq, pd) =>
                   last.ret.val = (pu + Len(upstream_sam.seq)) - pd

\* the upstream anchor occurs only as its reverse complement, which differs from
\* its complement read forwards
C5_Witness ==
    /\ Returned("splice_gap") /\ Both /\ BothLocatable
    /\ ~Forward(upstream_sam.seq)
    /\ ReverseComplement(upstream_sam.seq) #
           [k \in 1..Len(upstream_sam.seq) |-> Complement(upstream_sam.seq[k])]

\* C7: a splice_gap() call with both anchors present and one of them not
\* locatable raises, returns no value, and leaves the Junction unchanged.
C7_UnlocatableRaises ==
    [][(last'.op = "splice_gap" /\ (Both /\ ~BothLocatable)') =>
           (last'.ret.kind = "raise" /\ UNCHANGED <<core, slots>>)]_vars

\* a splice_gap() call has raised with both anchors present
C7_Witness == last.op = "splice_gap" /\ Both /\ ~BothLocatable /\ last.ret.kind = "raise"

\* C8 as stated: with both anchors present and located, splice_gap() is
\* non-negative, and zero exactly when the anchors are adjacent.
C8_GapNonNegative ==
    Returned("splice_gap") /\ Both /\ BothLocatable =>
        /\ last.ret.val >= 0
        /\ last.ret.val = 0 <=> Apart(0)

\* C10 as stated: with both anchors present, located and adjacent, splice_ind()
\* is the offset at which the downstream match begins.
C10_SpliceIndAtJunction ==
    Returned("splice_ind") /\ Both /\ BothLocatable /\ Apart(0) =>
        \A pd \in Positions : MatchAt(downstream_sam.seq, pd) => last.ret.val = pd

\* both anchors present, located and adjacent, splice_ind() called
C10_Reached == Returned("splice_ind") /\ Both /\ BothLocatable /\ Apart(0)

\* the anchor's edge lies within 3 of a boundary of its exon annotation
NearBoundary(pos, gtf) ==
    gtf.present /\ (abs(pos - gtf.start) <= 3 \/ abs(pos - gtf.stop) <= 3)

\* C2: check_fusion(span_cutoff) is true if and only if both anchors are at a
\* boundary (radius 3) and the chromosomes differ, or the strands differ, or
\* abs(span()) exceeds span_cutoff.
C2_FusionIff ==
    last.op = "check_fusion" =>
        last.ret.val =
            (/\ NearBoundary(upstream_sam.stop, upstream_sam.gtf)
             /\ NearBoundary(downstream_sam.start, downstream_sam.gtf)
             /\ \/ upstream_sam.chromosome # downstream_sam.chromosome
                \/ upstream_sam.strand # downstream_sam.strand
                \/ abs(upstream_sam.start - downstream_sam.stop) > last.arg[1])

\* a fusion on span grounds alone: same chromosome, same strand
C2_Witness ==
    /\ last.op = "check_fusion" /\ last.ret.val = TRUE
    /\ upstream_sam.chromosome = downstream_sam.chromosome
    /\ upstream_sam.strand = downstream_sam.strand

Serializers == {"fasta_MACHETE", "fasta_string", "verbose_fasta_string"}

Serialized == last.op \in Serializers /\ last.ret.kind = "return"

\* line is lp copies of N, then the consensus, then rp copies of N
PaddedBy(line, lp, rp) ==
    /\ Len(line) = lp + Len(consensus) + rp
    /\ \A k \in 1..Len(line) :
           line[k] = IF k <= lp \/ k > lp + Len(consensus) THEN "N"
                     ELSE consensus[k - lp]

\* C4: the sequence line of each serializer is max(F-i,0) copies of N, the
\* consensus, and max(F-(L-i),0) copies of N, of length 2F when F >= max(i, L-i).
C4_PaddingLaw ==
    Serialized =>
        LET F == constants_dict.splice_flank_len
            L == Len(consensus)
            i == splice_ind
        IN /\ PaddedBy(last.ret.val.seq, max(F - i, 0), max(F - (L - i), 0))
           /\ F >= max(i, L - i) => Len(last.ret.val.seq) = 2 * F

\* a serializer returned with 0 <= i <= L and a negative padding count
C4_Witness ==
    /\ Serialized /\ Both
    /\ splice_ind <= Len(consensus)
    /\ constants_dict.splice_flank_len < Len(consensus) - splice_ind

\* C9: splice_ind() is never negative: the upstream anchor's length with both
\* anchors present, floor(len(consensus)/2) otherwise; and every sequence line is
\* the N-padded consensus, never the text None.
C9_SpliceIndNeverSentinel ==
    /\ Returned("splice_ind") =>
           /\ last.ret.val >= 0
           /\ Both => last.ret.val = Len(upstream_sam.seq)
           /\ ~Both => /\ 2 * last.ret.val <= Len(consensus)
                       /\ Len(consensus) < 2 * last.ret.val + 2
    /\ last.op = "splice_ind" => last.ret.kind = "return"
    /\ Serialized =>
           /\ last.ret.val.seq # NoneStr
           /\ \E lp \in 0..Len(last.ret.val.seq), rp \in 0..Len(last.ret.val.seq) :
                  PaddedBy(last.ret.val.seq, lp, rp)

\* a junction with a missing anchor and an odd-length consensus was serialized
C9_Witness ==
    /\ Serialized /\ ~Both /\ upstream_sam.exists
    /\ Len(consensus) % 2 = 1

\* C6 as stated: for every key chrA:binA_chrB:binB_strand, linear() is
\* (binA <= binB), negated when took_reverse_compliment is set, whatever the
\* chromosome names are.
C6_LinearByBins ==
    last.op = "linear" =>
        \A a \in {Chr1, ChrHap}, b \in {Chr1, Chr2}, i \in 0..MaxBin, j \in 0..MaxBin :
            bin_pair = MakeBinPair(a, i, b, j, Plus) =>
                /\ last.ret.kind = "return"
                /\ last.ret.val = IF took_reverse_compliment THEN ~(i <= j) ELSE i <= j

\* linear() on keys whose chromosome names hold no separator: the comparison of
\* the bins, negated when took_reverse_compliment is set
LinearOnPlainKeys ==
    last.op = "linear" =>
        \A b \in {Chr1, Chr2}, i \in 0..MaxBin, j \in 0..MaxBin :
            bin_pair = MakeBinPair(Chr1, i, b, j, Plus) =>
                /\ last.ret.kind = "return"
                /\ last.ret.val = IF took_reverse_compliment THEN ~(i <= j) ELSE i <= j

====
